---- MODULE Spec2Model ----
(***************************************************************************)
(* Reservation intake of the Booking Engine API (backend/main.py).         *)
(*                                                                         *)
(* Two intake handlers, create_reservation (POST /api/reservations) and    *)
(* ota_webhook (POST /api/ota/webhook), run concurrently in the server's   *)
(* thread pool.  Each handler is cut at its interactions with shared       *)
(* state: the room type lookup (with the validation and pricing that       *)
(* follow it), the insert of the reservation, and the notification.        *)
(*                                                                         *)
(* Strings are sequences of one-character strings; Optional[T] is a        *)
(* sequence of length at most one; dates are day ordinals; prices are      *)
(* integers (whole currency units, where float arithmetic is exact).       *)
(***************************************************************************)
EXTENDS Integers, Sequences, FiniteSets, TLC

VARIABLES
    roomtype,       \* the "roomtype" collection, in insertion order
    reservation,    \* the "reservation" collection, in insertion order
    clock,          \* datetime.utcnow(), seconds since 2024-01-01T00:00:00
    env,            \* the process environment read through os.getenv
    req             \* the requests in flight: body, position, locals, response

vars == <<roomtype, reservation, clock, env, req>>

(* Bounds of the model. *)
MaxDay == 3          \* check_in and check_out range over the days 1..MaxDay
MaxRoomTypes == 1    \* room types created through create_room_type
MaxClock == 1        \* seconds the clock advances

Requests == {"r1", "r2"}
First == "r1"

---------------------------------------------------------------------------
(* Optional values and strings *)

None == << >>
Some(x) == <<x>>

Digits == <<"0", "1", "2", "3", "4", "5", "6", "7", "8", "9">>
HexDigits == Digits \o <<"a", "b", "c", "d", "e", "f">>

StartsWith(s, p) == Len(s) >= Len(p) /\ SubSeq(s, 1, Len(p)) = p

\* truthiness of an Optional[str]: None and "" are falsy
Truthy(o) == o # None /\ o[1] # << >>

\* int(s) succeeds (simplified to plain decimal literals)
IsIntLiteral(s) == Len(s) > 0 /\ \A i \in 1..Len(s) : \E d \in 1..10 : Digits[d] = s[i]

\* EmailStr accepts s (simplified: exactly one "@", not first and not last)
IsEmail(s) ==
    \E i \in 2..(Len(s) - 1) :
        s[i] = "@" /\ \A j \in 1..Len(s) : (j # i => s[j] # "@")

---------------------------------------------------------------------------
(* bson.ObjectId and the document store *)

\* str(ObjectId): fixed-width lower-case hex
ObjectIdStr(k) == <<HexDigits[(k \div 16) + 1], HexDigits[(k % 16) + 1]>>

HexValue(c) == CHOOSE i \in 0..15 : HexDigits[i + 1] = c

\* ObjectId(s): Some(id) when s is well-formed, None when it raises InvalidId
ObjectId(s) ==
    IF Len(s) = 2 /\ \A i \in 1..2 : \E d \in 1..16 : HexDigits[d] = s[i]
    THEN Some(16 * HexValue(s[1]) + HexValue(s[2]))
    ELSE None

\* db[coll].find_one({"_id": oid})
find_one(coll, oid) ==
    LET hits == {i \in 1..Len(coll) : coll[i]._id = oid}
    IN  IF hits = {} THEN None ELSE Some(coll[CHOOSE i \in hits : TRUE])

\* create_document(collection, record): the identifier the store generates
NewId(coll) == Len(coll) + 1

\* create_document(collection, record): the collection after the insert
create_document(coll, doc) == Append(coll, [doc EXCEPT !._id = NewId(coll)])

---------------------------------------------------------------------------
(* Utility: generate_confirmation_code *)

Two(n) == <<Digits[(n \div 10) + 1], Digits[(n % 10) + 1]>>

\* datetime.strftime('%Y%m%d%H%M%S')
strftime(t) ==
    <<"2", "0", "2", "4", "0", "1", "0", "1">>
        \o Two((t \div 3600) % 24) \o Two((t \div 60) % 60) \o Two(t % 60)

RES == <<"R", "E", "S">>
OTA == <<"O", "T", "A">>

generate_confirmation_code(prefix) == prefix \o <<"-">> \o strftime(clock)

---------------------------------------------------------------------------
(* Schemas *)

\* RoomType: base_price >= 0 (max_guests and the text fields are not modelled)
RoomTypeValid(rt) == rt.base_price >= 0

\* a Reservation schema that lost the bound on guests
ReservationValid_no_guests(d) == d.total_price >= 0 /\ Len(d.currency) = 3

\* Reservation: guests >= 1, total_price >= 0, currency of exactly 3 characters
ReservationValid(d) ==
    /\ d.guests >= 1
    /\ d.total_price >= 0
    /\ Len(d.currency) = 3

USD == <<"U", "S", "D">>
GuestEmail == <<"g", "@", "x">>

---------------------------------------------------------------------------
(* Notification *)

\* os.getenv(name, default)
getenv(name, default) == IF env[name] = None THEN default ELSE env[name][1]

\* EmailNotification(to=...) validates the recipient
EmailNotificationValid(to) == IsEmail(to)

\* send_email: "raise" when it raises to the caller, else the boolean returned
send_email(transport_ok) ==
    IF ~IsIntLiteral(getenv("SMTP_PORT", <<"5", "8", "7">>)) THEN "raise"
    ELSE IF ~Truthy(env["SMTP_HOST"]) THEN "true"
    ELSE IF transport_ok THEN "true"
    ELSE "false"

---------------------------------------------------------------------------
(* Pricing and validation of the intake handlers *)

nights(check_in, check_out) == check_out - check_in

\* a range check that lets a same-day stay through
DateRangeValid_same_day(n) == n >= 0

\* nights <= 0 is rejected
DateRangeValid(n) == n > 0

\* a price that counts the day of departure as a night
direct_total_price_inclusive(rt, n) == rt.base_price * (n + 1)

\* create_reservation: total_price
direct_total_price(rt, n) == rt.base_price * n

\* ota_webhook: base_price falls back to 0 when the room type is missing
ota_base_price(rt) == IF rt # None THEN rt[1].base_price ELSE 0

\* ota_webhook: total_price
ota_total_price(payload, base_price, n) ==
    IF payload.total_price # None THEN payload.total_price[1] ELSE base_price * n

\* a choice of code that tests for None instead of truthiness
ota_confirmation_code_is_not_none(payload) ==
    IF payload.confirmation_code # None
    THEN payload.confirmation_code[1]
    ELSE generate_confirmation_code(OTA)

\* ota_webhook: confirmation_code
ota_confirmation_code(payload) ==
    IF Truthy(payload.confirmation_code)
    THEN payload.confirmation_code[1]
    ELSE generate_confirmation_code(OTA)

\* ota_webhook: currency
ota_currency(payload) == IF Truthy(payload.currency) THEN payload.currency[1] ELSE USD

\* a lookup that lost its filter: any stored room type matches
lookup_room_type_unfiltered(room_type_id, store_raises) ==
    IF store_raises \/ roomtype = << >> THEN None ELSE Some(roomtype[1])

\* the room type lookup of both handlers: None when ObjectId raises,
\* when the store raises, or when no document matches
lookup_room_type(room_type_id, store_raises) ==
    IF store_raises \/ ObjectId(room_type_id) = None
    THEN None
    ELSE find_one(roomtype, ObjectId(room_type_id)[1])

---------------------------------------------------------------------------
(* Inputs *)

Days == 1..MaxDay
BasePrices == {100}
GuestCounts == {0, 1}
Malformed == <<"z">>
RoomTypeIds == {ObjectIdStr(k) : k \in 1..MaxRoomTypes} \cup {Malformed}

DirectBodies ==
    [room_type_id : RoomTypeIds, check_in : Days, check_out : Days,
     guests : GuestCounts, total_price : {None}, currency : {None},
     confirmation_code : {None}]

OtaBodies ==
    [room_type_id : RoomTypeIds, check_in : Days, check_out : Days,
     guests : GuestCounts,
     total_price : {None, Some(-1), Some(0)},
     currency : {None, Some(<<"E", "U", "R", "O">>)},
     confirmation_code : {None, Some(<< >>), Some(<<"B", "K", "1">>)}]

Bodies(h) == IF h = "direct" THEN DirectBodies ELSE OtaBodies

Handlers == {"direct", "ota"}

\* nothing set; SMTP configured; SMTP_PORT not a number; operator address
\* not an e-mail address
Unset == [SMTP_HOST |-> None, SMTP_PORT |-> None, BOOKING_NOTIFICATION_EMAIL |-> None]

Environments ==
    { Unset,
      [Unset EXCEPT !.SMTP_HOST = Some(<<"m", "x">>), !.SMTP_PORT = Some(<<"2", "5">>),
                    !.BOOKING_NOTIFICATION_EMAIL = Some(<<"o", "@", "x">>)],
      [Unset EXCEPT !.SMTP_PORT = Some(<< >>)],
      [Unset EXCEPT !.BOOKING_NOTIFICATION_EMAIL = Some(<<"o", "p", "s">>)] }

---------------------------------------------------------------------------
(* Requests *)

NoBody ==
    [room_type_id |-> Malformed, check_in |-> 1, check_out |-> 1, guests |-> 0,
     total_price |-> None, currency |-> None, confirmation_code |-> None]

Idle ==
    [h |-> "none", body |-> NoBody, pc |-> "idle", rt |-> None, doc |-> None,
     res_id |-> None, events |-> << >>, status |-> 0, response |-> None]

Received(h, body) == [Idle EXCEPT !.h = h, !.body = body, !.pc = "lookup"]

\* the handler ends with an HTTP error status
Fail(q, status) == [q EXCEPT !.pc = "done", !.status = status]

Init ==
    /\ roomtype = << >>
    /\ reservation = << >>
    /\ clock = 0
    /\ env \in Environments
    /\ req = [r \in Requests |-> Idle]

---------------------------------------------------------------------------
(* Actions *)

Tick ==
    /\ clock < MaxClock
    /\ clock' = clock + 1
    /\ UNCHANGED <<roomtype, reservation, env, req>>

\* POST /api/room-types
create_room_type ==
    /\ Len(roomtype) < MaxRoomTypes
    /\ \E bp \in BasePrices :
        LET payload == [_id |-> 0, base_price |-> bp]
        IN  /\ RoomTypeValid(payload)
            /\ roomtype' = create_document(roomtype, payload)
    /\ UNCHANGED <<reservation, clock, env, req>>

\* a client posts a body to one of the two intake endpoints (request names are
\* interchangeable: the first request is First)
Submit(r) ==
    /\ r = First
    /\ \A q \in Requests : req[q].pc = "idle"
    /\ \E h \in Handlers : \E body \in Bodies(h) :
        req' = [req EXCEPT ![r] = Received(h, body)]
    /\ UNCHANGED <<roomtype, reservation, clock, env>>

\* the body of an earlier request is posted again, to either endpoint
Resubmit(r) ==
    /\ req[r].pc = "idle"
    /\ \E q \in Requests \ {r} : \E h \in Handlers :
        /\ req[q].pc # "idle"
        /\ req' = [req EXCEPT ![r] = Received(h, req[q].body)]
    /\ UNCHANGED <<roomtype, reservation, clock, env>>

\* create_reservation, up to the construction of the Reservation
create_reservation_lookup(r) ==
    /\ req[r].pc = "lookup" /\ req[r].h = "direct"
    /\ \E store_raises \in BOOLEAN :
        LET q == req[r]
            payload == q.body
            rt == lookup_room_type(payload.room_type_id, store_raises)
            n == nights(payload.check_in, payload.check_out)
            doc == [_id |-> 0,
                    room_type_id |-> payload.room_type_id,
                    check_in |-> payload.check_in,
                    check_out |-> payload.check_out,
                    guests |-> payload.guests,
                    total_price |-> direct_total_price(rt[1], n),
                    currency |-> USD,
                    channel |-> "direct",
                    status |-> "confirmed",
                    confirmation_code |-> generate_confirmation_code(RES)]
        IN  req' = [req EXCEPT ![r] =
                IF rt = None THEN Fail(q, 404)
                ELSE IF ~DateRangeValid(n) THEN Fail([q EXCEPT !.rt = rt], 400)
                ELSE IF ~ReservationValid(doc) THEN Fail([q EXCEPT !.rt = rt], 500)
                ELSE [q EXCEPT !.rt = rt, !.doc = Some(doc), !.pc = "insert"]]
    /\ UNCHANGED <<roomtype, reservation, clock, env>>

\* ota_webhook, up to the construction of the Reservation
ota_webhook_lookup(r) ==
    /\ req[r].pc = "lookup" /\ req[r].h = "ota"
    /\ \E store_raises \in BOOLEAN :
        LET q == req[r]
            payload == q.body
            confirmation_code == ota_confirmation_code(payload)
            n == nights(payload.check_in, payload.check_out)
            rt == lookup_room_type(payload.room_type_id, store_raises)
            doc == [_id |-> 0,
                    room_type_id |-> payload.room_type_id,
                    check_in |-> payload.check_in,
                    check_out |-> payload.check_out,
                    guests |-> payload.guests,
                    total_price |-> ota_total_price(payload, ota_base_price(rt), n),
                    currency |-> ota_currency(payload),
                    channel |-> "booking.com",
                    status |-> "confirmed",
                    confirmation_code |-> confirmation_code]
        IN  req' = [req EXCEPT ![r] =
                IF ~DateRangeValid(n) THEN Fail(q, 400)
                ELSE IF ~ReservationValid(doc) THEN Fail([q EXCEPT !.rt = rt], 500)
                ELSE [q EXCEPT !.rt = rt, !.doc = Some(doc), !.pc = "insert"]]
    /\ UNCHANGED <<roomtype, reservation, clock, env>>

\* res_id = create_document("reservation", reservation)
insert_reservation(r) ==
    /\ req[r].pc = "insert"
    /\ reservation' = create_document(reservation, req[r].doc[1])
    /\ req' = [req EXCEPT ![r] =
            [@ EXCEPT !.res_id = Some(ObjectIdStr(NewId(reservation))),
                      !.events = Append(@, "insert"),
                      !.pc = "notify"]]
    /\ UNCHANGED <<roomtype, clock, env>>

\* a notification step that sends again when the transport fails
notify_retry(r) ==
    /\ req[r].pc = "notify"
    /\ \E transport_ok \in BOOLEAN :
        LET q == req[r]
            to_email == getenv("BOOKING_NOTIFICATION_EMAIL", GuestEmail)
            sent == [q EXCEPT !.events = Append(@, "dispatch")]
            again == [sent EXCEPT !.events = Append(@, "dispatch")]
            final == IF send_email(transport_ok) = "false" THEN again ELSE sent
        IN  req' = [req EXCEPT ![r] =
                IF ~EmailNotificationValid(to_email) THEN Fail(q, 500)
                ELSE IF send_email(transport_ok) = "raise" THEN Fail(sent, 500)
                ELSE [final EXCEPT
                        !.pc = "done", !.status = 200,
                        !.response = Some([id |-> q.res_id[1],
                                           confirmation_code |-> q.doc[1].confirmation_code])]]
    /\ UNCHANGED <<roomtype, reservation, clock, env>>

\* the notification and the response
notify(r) ==
    /\ req[r].pc = "notify"
    /\ \E transport_ok \in BOOLEAN :
        LET q == req[r]
            to_email == getenv("BOOKING_NOTIFICATION_EMAIL", GuestEmail)
            sent == [q EXCEPT !.events = Append(@, "dispatch")]
        IN  req' = [req EXCEPT ![r] =
                IF ~EmailNotificationValid(to_email) THEN Fail(q, 500)
                ELSE IF send_email(transport_ok) = "raise" THEN Fail(sent, 500)
                ELSE [sent EXCEPT
                        !.pc = "done", !.status = 200,
                        !.response = Some([id |-> q.res_id[1],
                                           confirmation_code |-> q.doc[1].confirmation_code])]]
    /\ UNCHANGED <<roomtype, reservation, clock, env>>

create_reservation_insert(r) == req[r].h = "direct" /\ insert_reservation(r)
create_reservation_notify(r) == req[r].h = "direct" /\ notify(r)
ota_webhook_insert(r) == req[r].h = "ota" /\ insert_reservation(r)
ota_webhook_notify(r) == req[r].h = "ota" /\ notify(r)

Next ==
    \/ Tick
    \/ create_room_type
    \/ \E r \in Requests : Submit(r)
    \/ \E r \in Requests : Resubmit(r)
    \/ \E r \in Requests : create_reservation_lookup(r)
    \/ \E r \in Requests : create_reservation_insert(r)
    \/ \E r \in Requests : create_reservation_notify(r)
    \/ \E r \in Requests : ota_webhook_lookup(r)
    \/ \E r \in Requests : ota_webhook_insert(r)
    \/ \E r \in Requests : ota_webhook_notify(r)

Spec == Init /\ [][Next]_vars

---------------------------------------------------------------------------
(* Vocabulary of the properties *)

Done(r) == req[r].pc = "done"
Direct(r) == req[r].h = "direct"
Ota(r) == req[r].h = "ota"
Stay(r) == req[r].body.check_out - req[r].body.check_in
Persisted(r) == req[r].res_id # None

\* positions of the stored reservations whose identifier request r received
StoredAt(r) ==
    {i \in 1..Len(reservation) : Some(ObjectIdStr(reservation[i]._id)) = req[r].res_id}

\* the room types stored under the identifier string s
RoomTypesNamed(s) == {j \in 1..Len(roomtype) : ObjectIdStr(roomtype[j]._id) = s}

ResDash == <<"R", "E", "S", "-">>
OtaDash == <<"O", "T", "A", "-">>

---------------------------------------------------------------------------
(* C1 *)

\* C1 as stated: on both channels every request with check_out <= check_in is
\* rejected with InvalidRange (400), whatever the other fields are.
C1_Original == \A r \in Requests : (Done(r) /\ Stay(r) <= 0) => req[r].status = 400

\* C1 amended: a request with check_out <= check_in is rejected with 400 on the
\* webhook channel always, and on the direct channel when the room type lookup
\* found the room type; when it did not, the direct channel answers 404.
C1_InvalidRange ==
    \A r \in Requests :
        (Done(r) /\ Stay(r) <= 0) =>
            /\ Ota(r) => req[r].status = 400
            /\ (Direct(r) /\ req[r].rt # None) => req[r].status = 400
            /\ (Direct(r) /\ req[r].rt = None) => req[r].status = 404

C1_Witness ==
    \E r, q \in Requests :
        /\ Done(r) /\ Direct(r) /\ Stay(r) <= 0 /\ req[r].rt # None /\ req[r].status = 400
        /\ Done(q) /\ Ota(q) /\ Stay(q) <= 0 /\ req[q].status = 400

---------------------------------------------------------------------------
(* C2 *)

\* C2: a direct booking whose room_type_id names no stored room type, or whose
\* lookup failed, is rejected with NotFound (404).
C2_NotFound ==
    \A r \in Requests :
        (Done(r) /\ Direct(r)
            /\ (RoomTypesNamed(req[r].body.room_type_id) = {} \/ req[r].rt = None))
        => req[r].status = 404

C2_Witness ==
    \E r \in Requests :
        /\ Done(r) /\ Direct(r) /\ req[r].status = 404 /\ Stay(r) > 0
        /\ req[r].body.guests = 1
        /\ req[r].body.room_type_id = Malformed /\ roomtype # << >>

---------------------------------------------------------------------------
(* C3 *)

\* C3 as stated: a direct booking that passed the request schema, whose room
\* type was found and whose check_out is after check_in, succeeds and returns a
\* non-empty identifier and a confirmation code starting with "RES-".
C3_Original ==
    \A r \in Requests :
        (Done(r) /\ Direct(r) /\ req[r].rt # None /\ Stay(r) > 0) =>
            /\ req[r].status = 200
            /\ req[r].response # None
            /\ req[r].response[1].id # << >>
            /\ StartsWith(req[r].response[1].confirmation_code, ResDash)

---------------------------------------------------------------------------
(* C4 *)

\* C4: every reservation persisted by the direct channel has total_price equal
\* to the base_price of the room type it names times check_out - check_in.
C4_DirectPrice ==
    \A r \in Requests :
        (Direct(r) /\ Persisted(r)) =>
            \E i \in StoredAt(r) :
                /\ reservation[i].check_in = req[r].body.check_in
                /\ reservation[i].check_out = req[r].body.check_out
                /\ \E j \in RoomTypesNamed(req[r].body.room_type_id) :
                    reservation[i].total_price =
                        roomtype[j].base_price
                            * (req[r].body.check_out - req[r].body.check_in)

C4_Witness ==
    \E r \in Requests :
        /\ Direct(r) /\ Persisted(r) /\ Stay(r) = 2
        /\ \E i \in StoredAt(r) : reservation[i].total_price = 200

---------------------------------------------------------------------------
(* C5 *)

\* C5 as stated: every webhook request with check_out > check_in creates a
\* reservation whose total_price is the caller's when one is supplied, else
\* base_price * nights with base_price 0 when the room type was not found.
C5_Original ==
    \A r \in Requests :
        (Done(r) /\ Ota(r) /\ Stay(r) > 0) =>
            /\ Persisted(r)
            /\ \E i \in StoredAt(r) :
                reservation[i].total_price =
                    IF req[r].body.total_price # None THEN req[r].body.total_price[1]
                    ELSE IF req[r].rt # None THEN req[r].rt[1].base_price * Stay(r)
                    ELSE 0

---------------------------------------------------------------------------
(* C6 *)

\* C6 as stated: whenever the webhook caller supplies a confirmation_code, the
\* persisted and returned code is the supplied value.
C6_Original ==
    \A r \in Requests :
        (Ota(r) /\ Persisted(r) /\ req[r].body.confirmation_code # None) =>
            \E i \in StoredAt(r) :
                reservation[i].confirmation_code = req[r].body.confirmation_code[1]

\* C6 amended: a supplied non-empty confirmation_code is persisted and returned
\* verbatim; when none or the empty string is supplied the code is generated
\* and starts with "OTA-".
C6_ConfirmationCode ==
    \A r \in Requests :
        (Ota(r) /\ Persisted(r)) =>
            \E i \in StoredAt(r) :
                LET supplied == req[r].body.confirmation_code
                    code == reservation[i].confirmation_code
                IN  /\ (supplied # None /\ supplied[1] # << >>) => code = supplied[1]
                    /\ (supplied = None \/ supplied = Some(<< >>)) => StartsWith(code, OtaDash)
                    /\ req[r].status = 200 => req[r].response[1].confirmation_code = code

C6_Witness ==
    \E r \in Requests :
        /\ Ota(r) /\ req[r].status = 200 /\ req[r].body.confirmation_code = Some(<< >>)
        /\ StartsWith(req[r].response[1].confirmation_code, OtaDash)

C6_WitnessVerbatim ==
    \E r \in Requests :
        /\ Ota(r) /\ req[r].status = 200
        /\ req[r].body.confirmation_code = Some(<<"B", "K", "1">>)
        /\ req[r].response[1].confirmation_code = <<"B", "K", "1">>

---------------------------------------------------------------------------
(* C7 *)

\* C7 as stated: once a request has persisted its reservation, nothing in the
\* notification step fails it: it ends with the success payload and the
\* reservation is in the store.
C7_Original ==
    \A r \in Requests :
        (Done(r) /\ Persisted(r)) =>
            /\ req[r].status = 200
            /\ req[r].response # None
            /\ StoredAt(r) # {}

\* the part of C7 the code keeps: the reservation of a request that failed in
\* the notification step stays in the store
C7_ReservationKept == \A r \in Requests : Persisted(r) => Cardinality(StoredAt(r)) = 1

---------------------------------------------------------------------------
(* C8 *)

SameValidDirect(r, q) ==
    /\ r # q
    /\ Done(r) /\ Done(q) /\ Direct(r) /\ Direct(q)
    /\ req[r].body = req[q].body
    /\ req[r].body.guests >= 1 /\ Stay(r) > 0
    /\ req[r].rt # None /\ req[q].rt # None

\* C8 as stated: the same valid direct booking submitted twice, in any
\* interleaving, succeeds twice, with two distinct identifiers for two
\* separately persisted reservations.
C8_Original ==
    \A r, q \in Requests :
        SameValidDirect(r, q) =>
            /\ req[r].status = 200 /\ req[q].status = 200
            /\ req[r].response[1].id # req[q].response[1].id
            /\ StoredAt(r) # {} /\ StoredAt(q) # {} /\ StoredAt(r) # StoredAt(q)

\* the part of C8 the code keeps: both bookings are persisted, separately and
\* under distinct identifiers, whether or not the notification step fails
C8_BothPersisted ==
    \A r, q \in Requests :
        SameValidDirect(r, q) =>
            /\ Persisted(r) /\ Persisted(q) /\ req[r].res_id # req[q].res_id
            /\ StoredAt(r) # {} /\ StoredAt(q) # {} /\ StoredAt(r) # StoredAt(q)

---------------------------------------------------------------------------
(* C9 *)

OutOfRange(r) ==
    \/ Stay(r) <= 0
    \/ req[r].body.guests < 1
    \/ Ota(r) /\ req[r].body.total_price # None /\ req[r].body.total_price[1] < 0
    \/ Ota(r) /\ req[r].body.currency # None /\ req[r].body.currency[1] # << >>
              /\ Len(req[r].body.currency[1]) # 3

---------------------------------------------------------------------------
(* C10 *)

C10_Effects ==
    \A r \in Requests :
        Done(r) =>
            /\ req[r].status = 200 => req[r].events = <<"insert", "dispatch">>
            /\ req[r].status \in {400, 404} => req[r].events = << >>

C10_AppendOnly ==
    /\ Len(reservation') >= Len(reservation)
    /\ \A i \in 1..Len(reservation) : reservation'[i] = reservation[i]
    /\ \A r \in Requests :
        (req[r].status = 0 /\ req'[r].status \in {400, 404}) => reservation' = reservation

\* C10: an accepted request makes exactly one insert and then exactly one
\* dispatch attempt; a request rejected with 404 or 400 makes neither and
\* leaves the collection unchanged; no step updates or deletes a reservation.
C10_InsertThenDispatch == []C10_Effects /\ [][C10_AppendOnly]_vars

C10_Witness ==
    \E r, q \in Requests :
        /\ Done(r) /\ req[r].status = 200 /\ req[r].events = <<"insert", "dispatch">>
        /\ Done(q) /\ req[q].status = 404 /\ req[q].events = << >>
        /\ Len(reservation) = 1

====
